---- MODULE Spec2Model ----
(***************************************************************************)
(* A model of src/rngs/os.rs: the OS entropy source OsRng.                 *)
(*                                                                         *)
(* Spec     one OsRng handle serving one fill_bytes / try_fill_bytes call: *)
(*          the chunking loop of try_fill_bytes and the retry loop of      *)
(*          fill_bytes, over a backend written against the OsRngImpl       *)
(*          trait (any max_chunk_size, any fill_chunk result).             *)
(* SpecDev  one Linux process whose threads construct handles with         *)
(*          OsRng::new() and fill buffers through them: the two Once       *)
(*          barriers, the shared device file behind its mutex, and the     *)
(*          byte stream of the device.                                     *)
(* SpecFair, SpecDevFair  the same with the threads scheduled fairly, for  *)
(*          the properties that say a call ends.                           *)
(* SpecScalar  one next_u32 / next_u64 call: the fill_bytes call behind it *)
(*          and the integer read back from the buffer.                     *)
(* SpecOs   a process of one of three targets (Linux, emscripten,          *)
(*          FreeBSD): the backends' fill_chunk and max_chunk_size under    *)
(*          the chunk loop of try_fill_bytes.                              *)
(***************************************************************************)
EXTENDS Integers, Sequences, FiniteSets, TLC

\* ----------------------------------------------------------------- bounds
\* Largest dest.len() a caller passes.
MaxLen == 4
\* Largest finite max_chunk_size() a backend reports (the sizes of the
\* source, 256 .. 65536, scaled down).
MaxChunk == 3
\* Threads of the process (SpecDev).
NThreads == 2
\* Bytes the threads request from the device, over all their calls (SpecDev).
MaxStream == 4
\* Largest dest.len() a thread passes (SpecDev).
MaxRead == 2
\* The finite max_chunk_size() of a target (SpecOs).
MaxChunkOs == 1
\* Values a byte can take (the 256 of the source, scaled down for the
\* integers of next_u64 to stay within the model checker's).
ByteBase == 4

\* ------------------------------------------------------ program constants
MAX_RETRY_PERIOD == 10
WAIT_DUR_MS == 100
RETRY_LIMIT == (MAX_RETRY_PERIOD * 1000) \div WAIT_DUR_MS
TRANSIENT_RETRIES == 8

\* rand_core::ErrorKind, as the source names its values.
ErrorKind == {"Transient", "NotReady", "Unavailable", "Unexpected"}

\* ErrorKind::should_wait and should_retry are defined in rand_core, outside
\* src/: they follow the specification's retry policy (sleep and retry on
\* NotReady, retry at once on Transient, abort on the other kinds).
should_wait(kind) == kind = "NotReady"
should_retry(kind) == kind \in {"Transient", "NotReady"}

\* Option<usize>::None of max_chunk_size(); Some(m) is the number m >= 1.
None == 0

\* Provenance of a byte of dest: the caller's own byte, a byte written by an
\* earlier try_fill_bytes attempt of this call, a byte written by the
\* current attempt.
ORIG == "orig"
STALE == "stale"
CUR == "cur"

\* READ_RNG_FILE: the outer Option still None, Some(Mutex(None)), and
\* Some(Mutex(Some(file))) as the number n >= 1 of the descriptor.
Unset == -1
NoFile == 0

\* next_u32 / next_u64 have not returned.
NoValue == -1

Min(a, b) == IF a <= b THEN a ELSE b

VARIABLES
  op,              \* the method the caller invoked: fill_bytes / try_fill_bytes
  len,             \* dest.len()
  max_chunk_size,  \* what the backend's max_chunk_size() returns
  device,          \* the backend's fill_chunk is random_device::read
  pc,              \* position of the call
  off,             \* bytes of dest already handed out by chunks_mut
  dest,            \* provenance of each byte of dest
  calls,           \* the fill_chunk calls of the current attempt: slice and result
  result,          \* what the last try_fill_bytes returned: "Ok" or an ErrorKind
  attempts,        \* try_fill_bytes calls made by this call
  err_count,       \* fill_bytes' local
  error_logged,    \* fill_bytes' local
  warnings,        \* warn! messages emitted
  slept_ms,        \* total time slept by thread::sleep
  nfail,           \* failed try_fill_bytes attempts of this call, by kind
  lock_acq,        \* acquisitions of the shared device mutex by this call
  traced,          \* the chunk count in try_fill_bytes' last trace! message (0: none)
  buf,             \* next_u32 / next_u64: the bytes read back from the buffer
  value,           \* next_u32 / next_u64: the integer returned (NoValue: none yet)
  \* -- the process of SpecDev and SpecOs
  target_os,       \* cfg(target_os) of the build: "linux", "emscripten", "freebsd"
  kernel,          \* what the kernel answers to getrandom: "ok", "enosys", "eother"
  nr_getrandom,    \* NR_GETRANDOM of the target architecture (0: none)
  checker,         \* is_getrandom_available's CHECKER: "new", "running", "done"
  AVAILABLE,       \* is_getrandom_available's AVAILABLE
  probes,          \* getrandom probe syscalls made
  rng_once,        \* READ_RNG_ONCE: "new", "running", "done"
  rng_file,        \* READ_RNG_FILE: Unset, NoFile, or the descriptor stored
  mutex_owner,     \* the thread holding READ_RNG_FILE's mutex (0: free)
  poisoned,        \* a thread panicked while holding the mutex
  opens,           \* successful File::open(path) calls: descriptors 1 .. opens
  stores,          \* assignments `*guard = Some(file)`
  closed,          \* descriptors of the device path that were dropped
  stream_pos,      \* bytes read from the device so far
  tpc,             \* each thread's position
  handle,          \* each thread's OsRng: "none", "GetRandom", "RandomDevice"
  requested,       \* bytes asked of the device by the try_fill_bytes calls so far
  tlen,            \* dest.len() of the thread's try_fill_bytes
  toff,            \* bytes of dest filled by the chunks before the current one
  rd,              \* bytes of its slice filled so far by the current fill_chunk
  got,             \* positions in the device stream the current read returned
  fgot,            \* those the earlier chunks of this try_fill_bytes returned
  tres,            \* result of the thread's last call
  tmsg,            \* msg of the Error when that result is one ("none": Ok)
  cause,           \* io::ErrorKind of the OS failure behind that result ("none": none)
  intr             \* the thread's current fill_chunk saw a syscall interrupted

fillVars == <<op, len, max_chunk_size, device, pc, off, dest, calls, result,
              attempts, err_count, error_logged, warnings, slept_ms, nfail, lock_acq,
              traced, buf, value>>

envVars == <<target_os, kernel, nr_getrandom>>
availVars == <<checker, AVAILABLE, probes>>
fileVars == <<rng_once, rng_file, mutex_owner, poisoned, opens, stores, closed>>
streamVars == <<stream_pos, requested>>
threadVars == <<tpc, handle, tlen, toff, rd, got, fgot, tres, tmsg, cause, intr>>

devVars == <<envVars, availVars, fileVars, streamVars, threadVars>>

vars == <<fillVars, devVars>>

Threads == 1 .. NThreads

\* ------------------------------------------------------- try_fill_bytes

\* let max = self.0.max_chunk_size().unwrap_or(dest.len());
Max == IF max_chunk_size = None THEN len ELSE max_chunk_size

\* Faulty variant: every slice has max bytes, the last one too.
ChunkLenWhole(remaining, max) == max

\* The length of the next slice chunks_mut(max) yields when `remaining`
\* bytes are left.
ChunkLen(remaining, max) == Min(max, remaining)

\* Results a fill_chunk call can produce: random_device::read maps every
\* read_exact failure to Unavailable; the trait allows any Error.
FillChunkOutcomes == IF device THEN {"Ok", "Unavailable"}
                     ELSE {"Ok"} \cup ErrorKind

\* Where control goes when try_fill_bytes returns: to its caller, or back
\* into fill_bytes' `if let Err(e)`.
AfterTry == IF op = "try_fill_bytes" THEN "returned" ELSE "handle"

\* dest with bytes lo+1 .. lo+n written by the current attempt.
Written(d, lo, n) == [i \in DOMAIN d |-> IF i > lo /\ i <= lo + n THEN CUR ELSE d[i]]

\* Bytes written by an earlier attempt are no longer the current attempt's.
Restamp(d) == [i \in DOMAIN d |-> IF d[i] = CUR THEN STALE ELSE d[i]]

\* Faulty variant: a Transient failure of a chunk is swallowed and the loop goes on.
PropagatesFatalOnly(out) == out \notin {"Ok", "Transient"}

\* Whether the `?` after fill_chunk leaves the loop on this result.
Propagates(out) == out # "Ok"

\* Faulty variant: no early return on an empty buffer.
IsEmptyNever(n) == FALSE

\* if dest.len() == 0 { return Ok(()); }
IsEmpty(n) == n = 0

\* The chunk count try_fill_bytes' trace! message reports: none when dest is
\* at most one chunk, (dest.len() + max) / max otherwise.
TraceChunks(n, max) == IF n <= max THEN 0 ELSE (n + max) \div max

\* Faulty variant: an attempt goes on at the slice the attempt before it
\* stopped at.
ChunksMutResume(o) == o

\* dest.chunks_mut(max) starts at the first byte of dest, wherever the loop
\* of an earlier call of try_fill_bytes stopped.
ChunksMutStart(o) == 0

\* try_fill_bytes up to its for loop.
TryFillEnter ==
  /\ pc = "try"
  /\ attempts' = attempts + 1
  /\ dest' = Restamp(dest)
  /\ calls' = <<>>
  /\ off' = ChunksMutStart(off)
  /\ IF IsEmpty(len)
       THEN /\ result' = "Ok"
            /\ pc' = AfterTry
            /\ traced' = traced
       ELSE /\ result' = "none"
            /\ pc' = "chunks"
            /\ traced' = TraceChunks(len, Max)
  /\ UNCHANGED <<op, len, max_chunk_size, device, err_count, error_logged,
                 warnings, slept_ms, nfail, lock_acq, buf, value>>
  /\ UNCHANGED devVars

\* One iteration of `for slice in dest.chunks_mut(max) { fill_chunk(slice)?; }`
\* and, after the last slice, the final Ok(()).
FillChunk ==
  /\ pc = "chunks"
  /\ LET clen == ChunkLen(len - off, Max) IN
     \E out \in FillChunkOutcomes :
       /\ calls' = Append(calls, [off |-> off, len |-> clen, res |-> out])
       /\ lock_acq' = lock_acq + (IF device THEN 1 ELSE 0)
       /\ IF Propagates(out)
            THEN /\ out # "Ok"
                 /\ \E w \in 0 .. (clen - 1) : dest' = Written(dest, off, w)
                 /\ off' = off
                 /\ result' = out
                 /\ nfail' = [nfail EXCEPT ![out] = @ + 1]
                 /\ pc' = AfterTry
            ELSE /\ dest' = Written(dest, off, clen)
                 /\ off' = off + clen
                 /\ nfail' = nfail
                 /\ IF off' >= len
                      THEN result' = "Ok" /\ pc' = AfterTry
                      ELSE result' = "none" /\ pc' = "chunks"
  /\ UNCHANGED <<op, len, max_chunk_size, device, attempts, err_count,
                 error_logged, warnings, slept_ms, traced, buf, value>>
  /\ UNCHANGED devVars

\* ----------------------------------------------------------- fill_bytes

\* Faulty variant: the limit test is off by one.
LimitReachedLate(count) == count > RETRY_LIMIT

\* if err_count >= RETRY_LIMIT
LimitReached(count) == count >= RETRY_LIMIT

\* Faulty variant: the cost of a Transient failure is rounded down.
TransientCostFloor == RETRY_LIMIT \div TRANSIENT_RETRIES

\* err_count += (RETRY_LIMIT + TRANSIENT_RETRIES - 1) / TRANSIENT_RETRIES
TransientCost == (RETRY_LIMIT + TRANSIENT_RETRIES - 1) \div TRANSIENT_RETRIES

\* Faulty variant: fill_bytes gives up by returning.
ReturnTooManyTimes == "returned"

\* panic!("OsRng failed too many times; last error: {}", e)
PanicTooManyTimes == "panicked"

\* Faulty variant: a fatal error is retried.
RetryFatal == "try"

\* panic!("OsRng fatal error: {}", e)
PanicFatal == "panicked"

\* `continue`: the next iteration of the loop calls try_fill_bytes again.
Continue == "try"

\* `break`, and fill_bytes returns.
Break == "returned"

\* Faulty variant: the warning is repeated at every retry.
WarnEveryTime ==
  /\ warnings' = warnings + 1
  /\ error_logged' = TRUE

\* if !error_logged { warn!(..); error_logged = true; }
WarnOnce ==
  /\ warnings' = IF error_logged THEN warnings ELSE warnings + 1
  /\ error_logged' = TRUE

\* The body of fill_bytes' loop after try_fill_bytes returned.
FillBytesHandle ==
  /\ pc = "handle"
  /\ IF result = "Ok"
       THEN /\ pc' = Break
            /\ UNCHANGED <<err_count, error_logged, warnings, slept_ms>>
       ELSE IF LimitReached(err_count)
       THEN /\ pc' = PanicTooManyTimes
            /\ UNCHANGED <<err_count, error_logged, warnings, slept_ms>>
       ELSE IF should_wait(result)
       THEN /\ WarnOnce
            /\ err_count' = err_count + 1
            /\ slept_ms' = slept_ms + WAIT_DUR_MS
            /\ pc' = Continue
       ELSE IF should_retry(result)
       THEN /\ WarnOnce
            /\ err_count' = err_count + TransientCost
            /\ slept_ms' = slept_ms
            /\ pc' = Continue
       ELSE /\ pc' = PanicFatal
            /\ UNCHANGED <<err_count, error_logged, warnings, slept_ms>>
  /\ UNCHANGED <<op, len, max_chunk_size, device, off, dest, calls, result,
                 attempts, nfail, lock_acq, traced, buf, value>>
  /\ UNCHANGED devVars

\* ------------------------------------------------- next_u32, next_u64

\* impls::next_u32_via_fill and next_u64_via_fill are defined in rand_core,
\* outside src/: as the specification describes them, they fill a buffer of
\* the size of the integer with fill_bytes and read the bytes back in
\* little-endian order.
ScalarOps == {"next_u32", "next_u64"}
ScalarLen(o) == IF o = "next_u32" THEN 4 ELSE 8

\* The values a byte of the entropy source takes in the model.
ByteVals == {1, ByteBase - 1}

RECURSIVE from_le_bytes(_)
\* The integer whose little-endian representation is the byte sequence b.
from_le_bytes(b) ==
  IF b = <<>> THEN 0 ELSE b[1] + ByteBase * from_le_bytes(Tail(b))

\* fill_bytes has returned to next_u32 / next_u64: the bytes of the buffer
\* are read back (a byte nobody wrote is the 0 the buffer started with, a
\* written byte has the value the source gave it) and the integer is returned.
ScalarReturn ==
  /\ op \in ScalarOps
  /\ pc = "returned"
  /\ \E b \in [1 .. len -> ByteVals \cup {0}] :
       /\ \A i \in 1 .. len : (b[i] = 0) <=> (dest[i] = ORIG)
       /\ buf' = b
       /\ value' = from_le_bytes(b)
  /\ pc' = "value"
  /\ UNCHANGED <<op, len, max_chunk_size, device, off, dest, calls, result,
                 attempts, err_count, error_logged, warnings, slept_ms, nfail,
                 lock_acq, traced>>
  /\ UNCHANGED devVars

\* ------------------------------------------- imp::OsRng::new (linux)

\* Whether a Once lets a caller of call_once run its closure: no closure has
\* started yet.
OnceClaims(once) == once = "new"

\* Faulty variant: a barrier that lets callers through while the closure runs.
OnceDoneEarly(once) == once # "new"

\* Whether call_once returns to a caller that did not run the closure: only
\* once the closure has completed.
OnceDone(once) == once = "done"

\* Faulty variant: getrandom counts as available only when the probe succeeds.
ProbeAvailableOnSuccess(k) == k = "ok"

\* Faulty variant: the probe's answer is lost and getrandom is never used.
ProbeAvailableNever(k) == FALSE

\* What the probe of is_getrandom_available concludes from getrandom on an
\* empty buffer: unavailable only on -1 with ENOSYS.
ProbeAvailable(k) == k # "enosys"

\* Error::new(kind, msg) and Error::with_cause(kind, msg, cause).
Error(kind, msg) == [kind |-> kind, msg |-> msg]

\* Ok(..), in the shape of an Error.
Ok == [kind |-> "Ok", msg |-> "none"]

\* A thread's call (OsRng::new() or try_fill_bytes) returns r: Ok, or an
\* Error made from an io::Error of kind c; its locals are gone.
Return(t, r, c) ==
  /\ tpc' = [tpc EXCEPT ![t] = "idle"]
  /\ tres' = [tres EXCEPT ![t] = r.kind]
  /\ tmsg' = [tmsg EXCEPT ![t] = r.msg]
  /\ cause' = [cause EXCEPT ![t] = c]
  /\ tlen' = [tlen EXCEPT ![t] = 0]
  /\ toff' = [toff EXCEPT ![t] = 0]
  /\ rd' = [rd EXCEPT ![t] = 0]
  /\ got' = [got EXCEPT ![t] = <<>>]
  /\ fgot' = [fgot EXCEPT ![t] = <<>>]
  /\ intr' = [intr EXCEPT ![t] = FALSE]

\* The call returns Ok(..).
Finish(t, r) == Return(t, Error(r, "none"), "none")

\* A thread moves on inside its call.
Goto(t, where) ==
  /\ tpc' = [tpc EXCEPT ![t] = where]
  /\ UNCHANGED <<tres, tmsg, cause, tlen, toff, rd, got, fgot, intr>>

\* OsRng::new() succeeds with the given method.
NewOk(t, method) ==
  /\ Finish(t, "Ok")
  /\ handle' = [handle EXCEPT ![t] = method]

\* Where imp::OsRng::new() begins: is_getrandom_available on Linux,
\* random_device::open on emscripten.
NewEntry(os) == IF os = "linux" THEN "avail" ELSE "open_once"

\* A thread calls OsRng::new(): on FreeBSD it returns Ok(OsRng) at once, on
\* the other targets it reaches its first call.
NewCall(t) ==
  /\ tpc[t] = "idle"
  /\ IF target_os = "freebsd"
       THEN NewOk(t, "Sysctl")
       ELSE /\ tpc' = [tpc EXCEPT ![t] = NewEntry(target_os)]
            /\ tres' = [tres EXCEPT ![t] = "none"]
            /\ tmsg' = [tmsg EXCEPT ![t] = "none"]
            /\ cause' = [cause EXCEPT ![t] = "none"]
            /\ UNCHANGED <<handle, tlen, toff, rd, got, fgot, intr>>
  /\ UNCHANGED <<fillVars, envVars, availVars, fileVars, streamVars>>

\* #[derive(Clone)]: a thread copies its handle and hands the copy to
\* another thread; nothing else of the process changes.
Clone(t, u) ==
  /\ tpc[t] = "idle" /\ tpc[u] = "idle"
  /\ handle[t] # "none"
  /\ handle' = [handle EXCEPT ![u] = handle[t]]
  /\ UNCHANGED <<fillVars, envVars, availVars, fileVars, streamVars,
                 tpc, tlen, toff, rd, got, fgot, tres, tmsg, cause, intr>>

\* is_getrandom_available up to CHECKER.call_once: without a syscall number
\* it returns false; the first caller enters the closure; a later caller
\* waits until the closure has completed.
AvailEnter(t) ==
  /\ tpc[t] = "avail"
  /\ IF nr_getrandom = 0
       THEN /\ Goto(t, "open_once")
            /\ UNCHANGED checker
       ELSE IF OnceClaims(checker)
       THEN /\ checker' = "running"
            /\ Goto(t, "probe")
       ELSE /\ OnceDone(checker)
            /\ Goto(t, "avail_load")
            /\ UNCHANGED checker
  /\ UNCHANGED <<fillVars, envVars, AVAILABLE, probes, fileVars, streamVars, handle>>

\* The closure of CHECKER.call_once: the probe syscall and the store.
AvailProbe(t) ==
  /\ tpc[t] = "probe"
  /\ probes' = probes + 1
  /\ AVAILABLE' = ProbeAvailable(kernel)
  /\ checker' = "done"
  /\ Goto(t, "avail_load")
  /\ UNCHANGED <<fillVars, envVars, fileVars, streamVars, handle>>

\* AVAILABLE.load, and new()'s choice of the method.
AvailLoad(t) ==
  /\ tpc[t] = "avail_load"
  /\ IF AVAILABLE
       THEN NewOk(t, "GetRandom")
       ELSE /\ Goto(t, "open_once")
            /\ UNCHANGED handle
  /\ UNCHANGED <<fillVars, envVars, availVars, fileVars, streamVars>>

\* ------------------------------------------ random_device::open_with_test

\* Faulty variant: every failure is reported as Unavailable, as in read.
map_err_unclassified(kind) == Error("Unavailable", "error while opening random device")

\* map_err of open_with_test, on the io::ErrorKind of the failure.
map_err(kind) ==
  CASE kind = "Interrupted" -> Error("Transient", "interrupted")
    [] kind = "WouldBlock" -> Error("NotReady", "OS RNG not yet seeded")
    [] OTHER -> Error("Unavailable", "error while opening random device")

\* What an OS call (the readiness probe, File::open, a read of the device,
\* getrandom) can answer: success or the io::ErrorKind of its failure.
IoOutcomes == {"Ok", "Interrupted", "WouldBlock", "Other"}

\* Faulty variant: the mutex can always be taken.
LockFreeAlways(owner) == TRUE

\* mutex.lock() returns when no thread holds the mutex.
LockFree(owner) == owner = 0

\* Faulty variant: the stored handle is not looked at.
GuardIsNoneAlways(file) == TRUE

\* (*guard).is_none()
GuardIsNone(file) == file = NoFile

\* Faulty variant: the guard outlives the call and the mutex stays locked.
DroppedLeak(owner) == owner

\* The owner of the mutex after `guard` has gone out of scope, on a return
\* or on a `?`: nobody.
Dropped(owner) == 0

\* Faulty variant: new() does not look at what open_with_test returned.
NewAfterOpenUnchecked(t, r, c) == NewOk(t, "RandomDevice")

\* random_device::open_with_test(..)?; Ok(OsRng(OsRngMethod::RandomDevice)):
\* open_with_test returned r (an Error built from the io::Error c, or Ok), and
\* new() returns the error or the device handle.
NewAfterOpen(t, r, c) ==
  IF r = Ok
    THEN NewOk(t, "RandomDevice")
    ELSE /\ Return(t, r, c)
         /\ UNCHANGED handle

\* READ_RNG_ONCE.call_once: the first caller enters the closure, a later one
\* waits for it to complete.
OpenOnce(t) ==
  /\ tpc[t] = "open_once"
  /\ IF OnceClaims(rng_once)
       THEN /\ rng_once' = "running"
            /\ Goto(t, "once_init")
       ELSE /\ OnceDone(rng_once)
            /\ Goto(t, "open_lock")
            /\ UNCHANGED rng_once
  /\ UNCHANGED <<fillVars, envVars, availVars, rng_file, mutex_owner, poisoned,
                 opens, stores, closed, streamVars, handle>>

\* The closure: READ_RNG_FILE = Some(Mutex::new(None)).
OnceInit(t) ==
  /\ tpc[t] = "once_init"
  /\ rng_file' = NoFile
  /\ rng_once' = "done"
  /\ Goto(t, "open_lock")
  /\ UNCHANGED <<fillVars, envVars, availVars, mutex_owner, poisoned,
                 opens, stores, closed, streamVars, handle>>

\* READ_RNG_FILE.as_ref().unwrap() and mutex.lock().unwrap(), then the test
\* of the guard: with a handle stored open_with_test returns Ok at once.
OpenLock(t) ==
  /\ tpc[t] = "open_lock"
  /\ IF rng_file = Unset \/ poisoned
       THEN /\ Goto(t, "panicked")
            /\ UNCHANGED <<mutex_owner, handle>>
       ELSE /\ LockFree(mutex_owner)
            /\ IF GuardIsNone(rng_file)
                 THEN /\ mutex_owner' = t
                      /\ Goto(t, "open_test")
                      /\ UNCHANGED handle
                 ELSE /\ mutex_owner' = Dropped(t)
                      /\ NewAfterOpen(t, Ok, "none")
  /\ UNCHANGED <<fillVars, envVars, availVars, rng_once, rng_file, poisoned,
                 opens, stores, closed, streamVars>>

\* What test() can answer: try_dev_random (Linux) opens and reads
\* /dev/random, the test of random_device::open (emscripten) is Ok(()).
TestOutcomes(os) == IF os = "linux" THEN IoOutcomes ELSE {"Ok"}

\* test().map_err(map_err)?  with the guard held.
OpenTest(t) ==
  /\ tpc[t] = "open_test"
  /\ \E out \in TestOutcomes(target_os) :
       IF out = "Ok"
         THEN /\ Goto(t, "open_file")
              /\ UNCHANGED <<mutex_owner, handle>>
         ELSE /\ mutex_owner' = Dropped(mutex_owner)
              /\ NewAfterOpen(t, map_err(out), out)
  /\ UNCHANGED <<fillVars, envVars, availVars, rng_once, rng_file, poisoned,
                 opens, stores, closed, streamVars>>

\* File::open(path).map_err(map_err)?  and  *guard = Some(file): the value
\* the guard held before is dropped, and the guard is released.
OpenFile(t) ==
  /\ tpc[t] = "open_file"
  /\ \E out \in IoOutcomes :
       IF out = "Ok"
         THEN /\ opens' = opens + 1
              /\ stores' = stores + 1
              /\ closed' = IF rng_file >= 1 THEN closed \cup {rng_file} ELSE closed
              /\ rng_file' = opens + 1
              /\ NewAfterOpen(t, Ok, "none")
         ELSE /\ NewAfterOpen(t, map_err(out), out)
              /\ UNCHANGED <<opens, stores, closed, rng_file>>
  /\ mutex_owner' = Dropped(mutex_owner)
  /\ UNCHANGED <<fillVars, envVars, availVars, rng_once, poisoned, streamVars>>

\* ------------------------------------------- try_fill_bytes of a thread

\* The position at which a handle's fill_chunk starts: getrandom_try_fill,
\* the sysctl of FreeBSD, or random_device::read.
FillChunkPc(method) ==
  CASE method = "GetRandom" -> "getrandom"
    [] method = "Sysctl" -> "sysctl"
    [] OTHER -> "read_lock"

\* imp::OsRng::max_chunk_size of the target: Some(65536) on emscripten and
\* Some(256) on FreeBSD (scaled down to MaxChunkOs), the trait's None on Linux.
ImpMaxChunk(os) == IF os \in {"emscripten", "freebsd"} THEN MaxChunkOs ELSE None

\* dest.len() of the fill_chunk call the thread is in: the next slice of
\* dest.chunks_mut(max).
Slice(t) ==
  ChunkLen(tlen[t] - toff[t],
           IF ImpMaxChunk(target_os) = None THEN tlen[t] ELSE ImpMaxChunk(target_os))

\* fill_chunk returned Ok to try_fill_bytes' loop: the loop calls fill_chunk
\* on the next slice, or try_fill_bytes returns Ok after the last one.
NextChunk(t) ==
  IF toff[t] + Slice(t) >= tlen[t]
    THEN Finish(t, "Ok")
    ELSE /\ tpc' = [tpc EXCEPT ![t] = FillChunkPc(handle[t])]
         /\ toff' = [toff EXCEPT ![t] = @ + Slice(t)]
         /\ rd' = [rd EXCEPT ![t] = 0]
         /\ fgot' = [fgot EXCEPT ![t] = @ \o got[t]]
         /\ got' = [got EXCEPT ![t] = <<>>]
         /\ intr' = [intr EXCEPT ![t] = FALSE]
         /\ UNCHANGED <<tlen, tres, tmsg, cause>>

\* A thread calls try_fill_bytes on its handle and, unless dest is empty,
\* reaches fill_chunk on the first slice.
FillCall(t) ==
  /\ tpc[t] = "idle"
  /\ handle[t] # "none"
  /\ \E n \in 0 .. MaxRead :
       /\ requested' = requested + (IF handle[t] = "RandomDevice" THEN n ELSE 0)
       /\ requested' <= MaxStream
       /\ IF IsEmpty(n)
            THEN Finish(t, "Ok")
            ELSE /\ tpc' = [tpc EXCEPT ![t] = FillChunkPc(handle[t])]
                 /\ tlen' = [tlen EXCEPT ![t] = n]
                 /\ tres' = [tres EXCEPT ![t] = "none"]
                 /\ tmsg' = [tmsg EXCEPT ![t] = "none"]
                 /\ cause' = [cause EXCEPT ![t] = "none"]
                 /\ UNCHANGED <<toff, rd, got, fgot, intr>>
  /\ UNCHANGED <<fillVars, envVars, availVars, fileVars, stream_pos, handle>>

\* random_device::read up to read_exact: READ_RNG_FILE.as_ref().unwrap(),
\* mutex.lock().unwrap() and (*guard).as_mut().unwrap().
ReadLock(t) ==
  /\ tpc[t] = "read_lock"
  /\ IF rng_file = Unset \/ poisoned
       THEN /\ Goto(t, "panicked")
            /\ UNCHANGED <<mutex_owner, poisoned>>
       ELSE /\ LockFree(mutex_owner)
            /\ IF rng_file = NoFile
                 THEN /\ Goto(t, "panicked")
                      /\ poisoned' = TRUE
                      /\ mutex_owner' = 0
                 ELSE /\ Goto(t, "reading")
                      /\ mutex_owner' = t
                      /\ UNCHANGED poisoned
  /\ UNCHANGED <<fillVars, envVars, availVars, rng_once, rng_file,
                 opens, stores, closed, streamVars, handle>>

\* Faulty variant: read_exact gives up on an interrupted read.
ReadExactRetriesNever(kind) == FALSE

\* std::io::Read::read_exact reads again when a read fails with Interrupted.
ReadExactRetries(kind) == kind = "Interrupted"

\* The closure of read's map_err, on the io::ErrorKind of read_exact's failure.
read_map_err(kind) == Error("Unavailable", "error reading random device")

\* One read(2) of file.read_exact(dest), with the guard held: some bytes of
\* the stream (read_exact goes on until dest is full), an interruption
\* (read_exact reads again), or another failure, which read maps to an Error
\* and returns, releasing the guard.
ReadSys(t) ==
  /\ tpc[t] = "reading"
  /\ \/ \E k \in 1 .. (Slice(t) - rd[t]) :
          /\ stream_pos' = stream_pos + k
          /\ got' = [got EXCEPT ![t] = @ \o [i \in 1 .. k |-> stream_pos + i]]
          /\ rd' = [rd EXCEPT ![t] = @ + k]
          /\ tpc' = [tpc EXCEPT ![t] = IF rd'[t] = Slice(t) THEN "read_done" ELSE "reading"]
          /\ UNCHANGED <<mutex_owner, tres, tmsg, cause, tlen, toff, fgot, intr>>
     \/ \E e \in IoOutcomes \ {"Ok"} :
          /\ UNCHANGED stream_pos
          /\ IF ReadExactRetries(e)
               THEN /\ intr' = [intr EXCEPT ![t] = TRUE]
                    /\ UNCHANGED <<mutex_owner, tpc, tres, tmsg, cause, tlen,
                                   toff, rd, got, fgot>>
               ELSE /\ mutex_owner' = Dropped(mutex_owner)
                    /\ Return(t, read_map_err(e), e)
  /\ UNCHANGED <<fillVars, envVars, availVars, rng_once, rng_file, poisoned,
                 opens, stores, closed, requested, handle>>

\* Faulty variant: the guard of a read lives on until try_fill_bytes returns.
ReadGuardKept(owner) == owner

\* The owner of the mutex when read returns: `guard` is a local of read and
\* is dropped with it, after every chunk.
ReadGuardDropped(owner) == Dropped(owner)

\* read_exact has filled dest: read returns Ok to try_fill_bytes' loop and
\* its guard is dropped.
ReadReturn(t) ==
  /\ tpc[t] = "read_done"
  /\ mutex_owner' = ReadGuardDropped(mutex_owner)
  /\ NextChunk(t)
  /\ UNCHANGED <<fillVars, envVars, availVars, rng_once, rng_file, poisoned,
                 opens, stores, closed, streamVars, handle>>

\* Faulty variant: every failure of getrandom is reported as Unavailable.
getrandom_map_err_unclassified(kind) == Error("Unavailable", "unexpected getrandom error")

\* The Error getrandom_try_fill returns for a failure that is not Interrupted.
getrandom_map_err(kind) ==
  IF kind = "WouldBlock"
    THEN Error("NotReady", "getrandom not ready")
    ELSE Error("Unavailable", "unexpected getrandom error")

\* Faulty variant: the loop stops after the first syscall that returned bytes.
ReadMoreOnce(read, n) == read = 0

\* while read < dest.len()
ReadMore(read, n) == read < n

\* Faulty variant: an interrupted syscall ends the call like any other failure.
GetrandomRetriesNever(kind) == FALSE

\* if kind == io::ErrorKind::Interrupted { continue; }
GetrandomRetries(kind) == kind = "Interrupted"

\* One iteration of getrandom_try_fill's loop: Ok(()) once `read` has reached
\* dest.len(); else a getrandom syscall on dest[read..], which gives some
\* bytes of it, or -1 with EINTR (`continue`), EAGAIN (NotReady) or another
\* error (Unavailable).
GetrandomSys(t) ==
  /\ tpc[t] = "getrandom"
  /\ IF ~ReadMore(rd[t], Slice(t))
       THEN NextChunk(t)
       ELSE \/ \E k \in 1 .. (Slice(t) - rd[t]) :
                 /\ rd' = [rd EXCEPT ![t] = @ + k]
                 /\ UNCHANGED <<tpc, tres, tmsg, cause, tlen, toff, got, fgot, intr>>
            \/ \E e \in IoOutcomes \ {"Ok"} :
                 IF GetrandomRetries(e)
                   THEN /\ intr' = [intr EXCEPT ![t] = TRUE]
                        /\ UNCHANGED <<tpc, tres, tmsg, cause, tlen, toff, rd, got, fgot>>
                   ELSE Return(t, getrandom_map_err(e), e)
  /\ UNCHANGED <<fillVars, envVars, availVars, fileVars, streamVars, handle>>

\* ------------------------------------------- imp::OsRng (freebsd)

\* fill_chunk of FreeBSD up to its `if`: one kern.arandom sysctl on dest,
\* which returns -1 (errno set), or 0 with the number of bytes it wrote, at
\* most dest.len(), in `len`.
SysctlCall(t) ==
  /\ tpc[t] = "sysctl"
  /\ \/ /\ cause' = [cause EXCEPT ![t] = "Other"]
        /\ UNCHANGED rd
     \/ \E outlen \in 0 .. Slice(t) :
          /\ rd' = [rd EXCEPT ![t] = outlen]
          /\ UNCHANGED cause
  /\ tpc' = [tpc EXCEPT ![t] = "sysctl_ret"]
  /\ UNCHANGED <<tres, tmsg, tlen, toff, got, fgot, intr>>
  /\ UNCHANGED <<fillVars, envVars, availVars, fileVars, streamVars, handle>>

\* Faulty variant: only the return value of sysctl is looked at.
SysctlFailedRetOnly(ret, outlen, n) == ret = -1

\* if ret == -1 || len != dest.len()
SysctlFailed(ret, outlen, n) == ret = -1 \/ outlen # n

\* The rest of FreeBSD's fill_chunk: the Unavailable error or Ok(()).
SysctlCheck(t) ==
  /\ tpc[t] = "sysctl_ret"
  /\ IF SysctlFailed(IF cause[t] = "Other" THEN -1 ELSE 0, rd[t], Slice(t))
       THEN Return(t, Error("Unavailable", "kern.arandom sysctl failed"), cause[t])
       ELSE NextChunk(t)
  /\ UNCHANGED <<fillVars, envVars, availVars, fileVars, streamVars, handle>>

\* --------------------------------------------------------- specification

\* The process before any thread has called OsRng::new().
ProcessStart ==
  /\ checker = "new"
  /\ AVAILABLE = FALSE
  /\ probes = 0
  /\ rng_once = "new"
  /\ rng_file = Unset
  /\ mutex_owner = 0
  /\ poisoned = FALSE
  /\ opens = 0
  /\ stores = 0
  /\ closed = {}
  /\ stream_pos = 0
  /\ tpc = [t \in Threads |-> "idle"]
  /\ handle = [t \in Threads |-> "none"]
  /\ requested = 0
  /\ tlen = [t \in Threads |-> 0]
  /\ toff = [t \in Threads |-> 0]
  /\ rd = [t \in Threads |-> 0]
  /\ got = [t \in Threads |-> <<>>]
  /\ fgot = [t \in Threads |-> <<>>]
  /\ tres = [t \in Threads |-> "none"]
  /\ tmsg = [t \in Threads |-> "none"]
  /\ cause = [t \in Threads |-> "none"]
  /\ intr = [t \in Threads |-> FALSE]

\* A call that has not started: fill_bytes' locals as lines 151-152 set them.
CallStart ==
  /\ pc = "try"
  /\ off = 0
  /\ dest = [i \in 1 .. len |-> ORIG]
  /\ calls = <<>>
  /\ result = "none"
  /\ attempts = 0
  /\ err_count = 0
  /\ error_logged = FALSE
  /\ warnings = 0
  /\ slept_ms = 0
  /\ nfail = [k \in ErrorKind |-> 0]
  /\ lock_acq = 0
  /\ traced = 0
  /\ buf = <<>>
  /\ value = NoValue

Init ==
  /\ op \in {"fill_bytes", "try_fill_bytes"}
  /\ len \in 0 .. MaxLen
  /\ max_chunk_size \in {None} \cup (1 .. MaxChunk)
  /\ device \in BOOLEAN
  /\ CallStart
  /\ target_os = "linux" /\ kernel = "ok" /\ nr_getrandom = 318
  /\ ProcessStart

Next == TryFillEnter \/ FillChunk \/ FillBytesHandle

Spec == Init /\ [][Next]_vars

\* Spec with the calling thread running: the call takes its next step
\* whenever it has one (fill_chunk returns, thread::sleep returns).
SpecFair == Spec /\ WF_vars(Next)

\* One next_u32 or next_u64 call on a handle: the backend has no chunk
\* bound or the largest one.
InitScalar ==
  /\ op \in ScalarOps
  /\ len = ScalarLen(op)
  /\ max_chunk_size \in {None, MaxChunk}
  /\ device \in BOOLEAN
  /\ CallStart
  /\ target_os = "linux" /\ kernel = "ok" /\ nr_getrandom = 318
  /\ ProcessStart

NextScalar == TryFillEnter \/ FillChunk \/ FillBytesHandle \/ ScalarReturn

SpecScalar == InitScalar /\ [][NextScalar]_vars

InitDev ==
  /\ op = "try_fill_bytes" /\ len = 0 /\ max_chunk_size = None /\ device = FALSE
  /\ CallStart
  /\ target_os = "linux"
  /\ kernel \in {"ok", "enosys", "eother"}
  /\ nr_getrandom \in {0, 318}
  /\ ProcessStart

NextDev ==
  \E t \in Threads :
    \/ NewCall(t) \/ (\E u \in Threads \ {t} : Clone(t, u))
    \/ AvailEnter(t) \/ AvailProbe(t) \/ AvailLoad(t)
    \/ OpenOnce(t) \/ OnceInit(t) \/ OpenLock(t) \/ OpenTest(t) \/ OpenFile(t)
    \/ FillCall(t) \/ ReadLock(t) \/ ReadSys(t) \/ ReadReturn(t) \/ GetrandomSys(t)

SpecDev == InitDev /\ [][NextDev]_vars

\* A process of one of three targets: Linux with the getrandom syscall or
\* without a syscall number (the device, no chunk bound), emscripten (the
\* device, bounded chunks), FreeBSD (the sysctl, bounded chunks).
InitOs ==
  /\ op = "try_fill_bytes" /\ len = 0 /\ max_chunk_size = None /\ device = FALSE
  /\ CallStart
  /\ target_os \in {"linux", "emscripten", "freebsd"}
  /\ kernel = "ok"
  /\ nr_getrandom \in (IF target_os = "linux" THEN {0, 318} ELSE {0})
  /\ ProcessStart

NextOs == NextDev \/ (\E t \in Threads : SysctlCall(t) \/ SysctlCheck(t))

SpecOs == InitOs /\ [][NextOs]_vars

\* The steps of a thread inside a call it has begun.
ThreadStep(t) ==
  \/ AvailEnter(t) \/ AvailProbe(t) \/ AvailLoad(t)
  \/ OpenOnce(t) \/ OnceInit(t) \/ OpenLock(t) \/ OpenTest(t) \/ OpenFile(t)
  \/ ReadLock(t) \/ ReadSys(t) \/ ReadReturn(t) \/ GetrandomSys(t)

\* SpecDev with the scheduling the calls rely on: a thread that can take a
\* step of its call takes one (the OS calls return), and a thread waiting in
\* mutex.lock() while the mutex is released again and again gets it.
SpecDevFair ==
  /\ SpecDev
  /\ \A t \in Threads :
       /\ WF_vars(ThreadStep(t))
       /\ SF_vars(OpenLock(t))
       /\ SF_vars(ReadLock(t))

\* ------------------------------------------- claims on fill_bytes (Spec)

\* try_fill_bytes has just returned `result` (to fill_bytes' loop or to the
\* caller) and nothing has acted on it yet.
TryReturned == pc = "handle" \/ (op = "try_fill_bytes" /\ pc = "returned")

Fatal == {"Unavailable", "Unexpected"}
NFatal == nfail["Unavailable"] + nfail["Unexpected"]
NFailed == nfail["Transient"] + nfail["NotReady"] + NFatal

\* C2: fill_bytes returns normally only after a try_fill_bytes attempt that
\* returned Ok, in which every fill_chunk call succeeded and every byte of
\* dest was written; it ends in no other way than by returning or panicking,
\* and it panics only on a failed attempt.
C2_ReturnsOnlyOnOk ==
  op = "fill_bytes" =>
    /\ pc = "returned" =>
         /\ result = "Ok"
         /\ \A i \in 1 .. len : dest[i] = CUR
         /\ \A c \in 1 .. Len(calls) : calls[c].res = "Ok"
         /\ off = len
    /\ pc = "panicked" => result \in ErrorKind
    /\ pc \notin {"returned", "panicked"} => ENABLED Next
C2_Witness ==
  /\ op = "fill_bytes" /\ pc = "returned" /\ len = MaxLen /\ Len(calls) > 1
  /\ nfail["Transient"] > 0 /\ nfail["NotReady"] > 0

\* C3: each NotReady failure that is retried is followed by exactly one
\* sleep of WAIT_DUR_MS before the next attempt, the total sleep never
\* exceeds MAX_RETRY_PERIOD seconds, and a call whose attempts all fail with
\* NotReady sleeps RETRY_LIMIT times and panics on failure RETRY_LIMIT + 1.
C3_NotReadySleeps ==
  op = "fill_bytes" =>
    /\ pc \in {"try", "chunks"} => slept_ms = WAIT_DUR_MS * nfail["NotReady"]
    /\ slept_ms <= MAX_RETRY_PERIOD * 1000
    /\ (pc = "panicked" /\ nfail["NotReady"] = NFailed) =>
         /\ slept_ms = RETRY_LIMIT * WAIT_DUR_MS
         /\ nfail["NotReady"] = RETRY_LIMIT + 1
         /\ attempts = RETRY_LIMIT + 1
C3_Witness ==
  /\ op = "fill_bytes" /\ pc = "panicked" /\ len > 0
  /\ nfail["NotReady"] = RETRY_LIMIT + 1 /\ NFailed = RETRY_LIMIT + 1

\* C4: a Transient failure is retried without sleeping, and a call whose
\* attempts all fail with Transient makes TRANSIENT_RETRIES + 1 attempts and
\* panics on the last of them.
C4_TransientRetries ==
  op = "fill_bytes" =>
    /\ nfail["NotReady"] = 0 => slept_ms = 0
    /\ nfail["Transient"] = NFailed =>
         /\ attempts <= TRANSIENT_RETRIES + 1
         /\ pc = "panicked" => /\ nfail["Transient"] = TRANSIENT_RETRIES + 1
                               /\ attempts = TRANSIENT_RETRIES + 1
         /\ (pc = "handle" /\ result = "Transient"
               /\ nfail["Transient"] = TRANSIENT_RETRIES + 1) => LimitReached(err_count)
         /\ (pc = "handle" /\ result = "Transient"
               /\ nfail["Transient"] <= TRANSIENT_RETRIES) => ~LimitReached(err_count)
C4_Witness ==
  /\ op = "fill_bytes" /\ pc = "panicked" /\ len > 0
  /\ nfail["Transient"] = TRANSIENT_RETRIES + 1 /\ NFailed = TRANSIENT_RETRIES + 1

\* C5: the first Unavailable or Unexpected error ends the call: fill_bytes
\* panics on it without sleeping and without another attempt, whatever
\* retries came before, and try_fill_bytes returns it to its caller.
C5_FatalPanics ==
  /\ NFatal <= 1
  /\ NFatal = 1 =>
       /\ result \in Fatal
       /\ attempts = NFailed
       /\ slept_ms = WAIT_DUR_MS * nfail["NotReady"]
       /\ pc \in {"handle", "panicked", "returned"}
       /\ pc = "returned" <=> op = "try_fill_bytes"
C5_Witness ==
  /\ op = "fill_bytes" /\ pc = "panicked" /\ result = "Unexpected"
  /\ nfail["Transient"] > 1 /\ nfail["NotReady"] > 1

\* C6: Transient and NotReady failures share one budget: err_count is the
\* number of retried NotReady failures plus 13 times the retried Transient
\* ones, a failure of either kind is retried exactly when err_count is below
\* RETRY_LIMIT and makes fill_bytes panic otherwise, and a successful attempt
\* makes fill_bytes return with the whole buffer written.
C6_State ==
  op = "fill_bytes" =>
    /\ pc \in {"try", "chunks"} =>
         err_count = nfail["NotReady"] + 13 * nfail["Transient"]
    /\ (pc = "panicked" /\ NFatal = 0) => err_count >= 100
    /\ (pc \in {"try", "chunks"} /\ attempts > 0) =>
         err_count - (IF result = "NotReady" THEN 1 ELSE 13) < 100
C6_Step ==
  (pc = "handle" /\ result \in {"Transient", "NotReady"}) =>
     /\ err_count < 100 => pc' = "try"
     /\ err_count >= 100 => pc' = "panicked"
C6_OkStep ==
  (pc = "handle" /\ result = "Ok") =>
     /\ pc' = "returned"
     /\ \A i \in 1 .. len : dest'[i] = CUR
C6_SharedBudget == [](C6_State) /\ [][C6_Step /\ C6_OkStep]_vars
C6_Witness ==
  /\ op = "fill_bytes" /\ pc = "returned" /\ len = MaxLen
  /\ nfail["Transient"] = 3 /\ nfail["NotReady"] = 60

\* C7: a successful try_fill_bytes on a buffer of n > 0 bytes with chunk
\* bound m (n when the backend has none) makes ceil(n / m) fill_chunk calls
\* on consecutive slices, in order, that start at 0 and end at n; every
\* slice but the last has m bytes and the last has between 1 and m.
C7_Chunking ==
  (len > 0 /\ result = "Ok") =>
    LET m == IF max_chunk_size = None THEN len ELSE max_chunk_size
        k == Len(calls)
    IN /\ k = (len + m - 1) \div m
       /\ calls[1].off = 0
       /\ \A c \in 1 .. k - 1 : /\ calls[c].len = m
                                /\ calls[c + 1].off = calls[c].off + calls[c].len
       /\ calls[k].off + calls[k].len = len
       /\ \A c \in 1 .. k : calls[c].len >= 1 /\ calls[c].len <= m
C7_Witness ==
  /\ result = "Ok" /\ len = MaxLen /\ max_chunk_size = MaxChunk
  /\ Len(calls) = 2 /\ calls[2].len < MaxChunk

\* C8: when a fill_chunk call fails, try_fill_bytes returns that error: the
\* failed call is the last one of the attempt, every call before it
\* succeeded on the slice before it, and no byte after the failed slice was
\* written in the attempt.
C8_FirstErrorReturned ==
  (TryReturned /\ result \in ErrorKind) =>
    LET k == Len(calls) IN
      /\ k >= 1
      /\ calls[k].res = result
      /\ \A c \in 1 .. k - 1 : /\ calls[c].res = "Ok"
                               /\ calls[c + 1].off = calls[c].off + calls[c].len
      /\ calls[1].off = 0
      /\ attempts = NFailed
      /\ \A i \in 1 .. len : i > calls[k].off + calls[k].len => dest[i] # CUR
C8_Witness ==
  /\ op = "try_fill_bytes" /\ pc = "returned" /\ result = "Transient"
  /\ len = MaxLen /\ Len(calls) = 2 /\ max_chunk_size = 1

\* C9: on an empty buffer try_fill_bytes returns Ok without calling
\* fill_chunk or taking the device lock, and fill_bytes returns after that
\* one attempt without retrying, sleeping or panicking.
C9_EmptyBuffer ==
  len = 0 =>
    /\ calls = <<>>
    /\ lock_acq = 0
    /\ pc \in {"try", "handle", "returned"}
    /\ attempts <= 1
    /\ pc # "try" => (result = "Ok" /\ attempts = 1)
    /\ slept_ms = 0 /\ err_count = 0 /\ warnings = 0
C9_Witness ==
  len = 0 /\ op = "fill_bytes" /\ pc = "returned" /\ device /\ attempts = 1

\* ------------------------------------- claims on the process (SpecDev)

Range(f) == {f[i] : i \in DOMAIN f}

\* A thread is inside read_exact, holding the guard.
InRead(t) == tpc[t] \in {"reading", "read_done"}

\* C1: the process opens the device path at most once and stores at most
\* one handle in READ_RNG_FILE, however many threads call OsRng::new() and
\* however handles are cloned; the stored handle is the first one opened
\* and is never replaced, cleared or closed.
C1_OneDeviceHandle ==
  /\ opens <= 1
  /\ stores <= 1
  /\ closed = {}
  /\ rng_file \in {Unset, NoFile, 1}
  /\ rng_file = 1 <=> stores = 1
C1_Witness ==
  /\ rng_file = 1
  /\ \E t \in Threads : \E u \in Threads \ {t} :
       /\ tpc[t] = "idle" /\ handle[t] = "RandomDevice" /\ tres[t] = "Ok"
       /\ tpc[u] = "open_lock" /\ handle[u] = "RandomDevice"

\* C10: at most one thread at a time is inside random_device::read's
\* read_exact, and it holds the mutex; the bytes one read call has received
\* are consecutive bytes of the device stream, disjoint from those of any
\* other call; and each byte taken from the stream goes to exactly one
\* caller, the one that is reading.
C10_State ==
  /\ Cardinality({t \in Threads : InRead(t)}) <= 1
  /\ \A t \in Threads :
       /\ InRead(t) => mutex_owner = t
       /\ InRead(t) => Len(got[t]) = rd[t]
       /\ tpc[t] = "read_done" => Len(got[t]) = tlen[t]
       /\ ~InRead(t) => got[t] = <<>>
       /\ \A i \in 1 .. Len(got[t]) - 1 : got[t][i + 1] = got[t][i] + 1
       /\ Range(got[t]) \subseteq 1 .. stream_pos
       /\ \A u \in Threads \ {t} : Range(got[t]) \cap Range(got[u]) = {}
C10_Step ==
  stream_pos' # stream_pos =>
    \E t \in Threads :
      /\ InRead(t)
      /\ got'[t] = got[t] \o [i \in 1 .. stream_pos' - stream_pos |-> stream_pos + i]
      /\ \A u \in Threads \ {t} : got'[u] = got[u]
C10_ExclusiveReads == [](C10_State) /\ [][C10_Step]_vars
C10_Witness ==
  \E t \in Threads : \E u \in Threads \ {t} :
    /\ tpc[t] = "read_done" /\ tlen[t] = 2 /\ got[t] = <<2, 3>>
    /\ tpc[u] = "read_lock"

\* A thread is inside open_with_test's `if (*guard).is_none()`, holding the guard.
InOpen(t) == tpc[t] \in {"open_test", "open_file"}

\* In this step open_with_test returns an error to thread t.
OpenFails(t) == InOpen(t) /\ tpc'[t] = "idle" /\ tres'[t] \in ErrorKind

\* C11: when open_with_test finds no handle stored and the readiness probe
\* or the opening of the path fails, the caller receives an error of one of
\* the kinds of the classifier, no handle is stored, a failed probe leaves
\* the path unopened, and READ_RNG_FILE and its mutex are as they were before
\* the call (no file, unlocked, not poisoned); the next call of
\* open_with_test that takes the lock runs the probe again.
C11_State ==
  \A t \in Threads :
    /\ InOpen(t) => (rng_file = NoFile /\ mutex_owner = t /\ opens = 0)
    /\ (tpc[t] = "idle" /\ mutex_owner = 0 /\ opens = 0) => rng_file \in {Unset, NoFile}
C11_Step ==
  \A t \in Threads :
    /\ OpenFails(t) =>
         /\ tres'[t] \in {"Transient", "NotReady", "Unavailable"}
         /\ cause'[t] \in {"Interrupted", "WouldBlock", "Other"}
         /\ rng_file = NoFile /\ rng_file' = NoFile
         /\ opens' = opens /\ stores' = stores /\ closed' = closed
         /\ rng_once' = rng_once /\ poisoned' = poisoned
         /\ mutex_owner' = 0
         /\ handle' = handle
    /\ (tpc[t] = "open_lock" /\ tpc'[t] # "open_lock" /\ rng_file = NoFile) =>
         (tpc'[t] = "open_test" /\ mutex_owner' = t)
    /\ (tpc[t] = "open_test" /\ tpc'[t] # "open_test") =>
         (tpc'[t] = "open_file" \/ OpenFails(t))
C11_FailedOpenLeavesNoHandle == [](C11_State) /\ [][C11_Step]_vars
C11_Witness ==
  \E t \in Threads : \E u \in Threads \ {t} :
    /\ tpc[u] = "idle" /\ tres[u] = "NotReady" /\ cause[u] = "WouldBlock"
    /\ handle[u] = "none"
    /\ tpc[t] = "open_test" /\ tres[t] = "none"
    /\ rng_file = NoFile /\ opens = 0

\* Some OsRng::new() of the process has returned Ok: handles come from new()
\* and from copies of a handle.
HandleBuilt == \E t \in Threads : handle[t] # "none"

\* A thread is inside OsRng::new().
InNew(t) == tpc[t] \in {"avail", "probe", "avail_load", "open_once", "once_init",
                        "open_lock", "open_test", "open_file"}

\* C12: once an OsRng::new() has succeeded, no getrandom probe, no readiness
\* probe and no File::open runs in the process any more, every new() that
\* returns returns Ok with a handle, none panics, and open_with_test with a
\* handle stored returns Ok without the probe and leaves the stored handle
\* and the mutex as they were.
C12_State ==
  HandleBuilt =>
    /\ \A t \in Threads :
         tpc[t] \notin {"probe", "once_init", "open_test", "open_file", "panicked"}
    /\ ~poisoned
C12_Step ==
  HandleBuilt =>
    /\ probes' = probes /\ opens' = opens /\ stores' = stores
    /\ rng_file' = rng_file /\ closed' = closed
    /\ \A t \in Threads :
         /\ (InNew(t) /\ tpc'[t] = "idle") => (tres'[t] = "Ok" /\ handle'[t] # "none")
         /\ (tpc[t] = "open_lock" /\ tpc'[t] # "open_lock" /\ rng_file >= 1) =>
              (tpc'[t] = "idle" /\ tres'[t] = "Ok" /\ mutex_owner' = 0)
C12_LaterNewIsCheap == [](C12_State) /\ [][C12_Step]_vars
C12_Witness ==
  \E t \in Threads : \E u \in Threads \ {t} :
    /\ tpc[t] = "idle" /\ handle[t] = "RandomDevice"
    /\ tpc[u] = "open_lock" /\ handle[u] = "none"
    /\ rng_file = 1 /\ probes = 1 /\ mutex_owner = 0

\* C13: whatever the interleaving of the threads' OsRng::new() calls, the
\* getrandom probe runs at most once, a thread loads AVAILABLE only after the
\* probe has completed and stored its result, the stored result never
\* changes afterwards, and all handles of the process have the same variant.
C13_State ==
  /\ probes <= 1
  /\ Cardinality({t \in Threads : tpc[t] = "probe"}) <= 1
  /\ (probes = 1) <=> (checker = "done")
  /\ \A t \in Threads :
       /\ tpc[t] = "probe" => (checker = "running" /\ probes = 0)
       /\ tpc[t] = "avail_load" => (checker = "done" /\ probes = 1)
  /\ \A t \in Threads : \A u \in Threads :
       (handle[t] # "none" /\ handle[u] # "none") => handle[t] = handle[u]
C13_Step ==
  /\ checker = "done" => (AVAILABLE' = AVAILABLE /\ checker' = "done")
  /\ \A t \in Threads :
       (tpc[t] = "avail_load" /\ tpc'[t] # "avail_load") =>
          IF AVAILABLE THEN tpc'[t] = "idle" /\ handle'[t] = "GetRandom"
                       ELSE tpc'[t] = "open_once"
C13_ProbeOnce == [](C13_State) /\ [][C13_Step]_vars
C13_Witness ==
  \E t \in Threads : \E u \in Threads \ {t} :
    /\ tpc[t] = "probe" /\ tpc[u] = "avail"
    /\ handle[t] = "none" /\ handle[u] = "none"
    /\ kernel = "ok" /\ checker = "running"

\* A thread holds READ_RNG_FILE's mutex at these positions and at no other.
HoldsLock(t) == tpc[t] \in {"open_test", "open_file", "reading", "read_done"}

\* A thread is inside a call and cannot take a step now.
Blocked(t) == tpc[t] # "idle" /\ ~ENABLED ThreadStep(t)

\* C14: threads that construct handles and fill buffers through them never
\* deadlock and never panic on the shared state: the mutex is never
\* poisoned, it is held exactly by a thread inside the guarded part of
\* open_with_test or read, a thread that cannot step is waiting for a thread
\* that can, and every call a thread begins returns.
C14_State ==
  /\ ~poisoned
  /\ \A t \in Threads :
       /\ tpc[t] # "panicked"
       /\ HoldsLock(t) <=> mutex_owner = t
       /\ Blocked(t) =>
            \E u \in Threads \ {t} :
              /\ ~Blocked(u)
              /\ HoldsLock(u) \/ tpc[u] \in {"probe", "once_init"}
C14_Live ==
  \A t \in Threads :
    /\ (tpc[t] # "idle") ~> (tpc[t] = "idle")
    /\ (mutex_owner = t) ~> (mutex_owner = 0)
C14_NoDeadlock == [](C14_State) /\ C14_Live
C14_Witness ==
  \E t \in Threads : \E u \in Threads \ {t} :
    /\ tpc[t] = "reading" /\ rd[t] > 0 /\ intr[t]
    /\ tpc[u] = "read_lock" /\ Blocked(u)

\* The call has ended: it returned or it panicked.
CallEnded == pc \in {"returned", "panicked"}

\* C15: a fill_bytes call never makes more than RETRY_LIMIT + 1 attempts, it
\* is inside an attempt or between two attempts until it ends, and it ends:
\* it eventually returns or panics.
C15_State ==
  op = "fill_bytes" =>
    /\ attempts <= RETRY_LIMIT + 1
    /\ pc \in {"try", "chunks", "handle", "returned", "panicked"}
    /\ (pc = "try" /\ attempts > 0) => attempts <= RETRY_LIMIT
C15_RunsToCompletion == [](C15_State) /\ <>CallEnded
C15_Witness ==
  /\ op = "fill_bytes" /\ pc = "returned" /\ attempts = RETRY_LIMIT + 1
  /\ len = MaxLen /\ nfail["NotReady"] = RETRY_LIMIT

\* The messages of the Errors open_with_test makes.
OpenMsgs == {"interrupted", "OS RNG not yet seeded", "error while opening random device"}

\* C16: an Error from open_with_test (a failed readiness probe or a failed
\* File::open) has kind Transient when the io::Error was Interrupted,
\* NotReady when it was WouldBlock and Unavailable for any other io::Error,
\* and never Unexpected; a thread that has no handle and holds an error got
\* it from open_with_test.
C16_OpenErrorKinds ==
  \A t \in Threads :
    /\ tmsg[t] \in OpenMsgs =>
         /\ cause[t] \in {"Interrupted", "WouldBlock", "Other"}
         /\ cause[t] = "Interrupted" => tres[t] = "Transient"
         /\ cause[t] = "WouldBlock" => tres[t] = "NotReady"
         /\ cause[t] = "Other" => tres[t] = "Unavailable"
         /\ tres[t] # "Unexpected"
    /\ (tres[t] \in ErrorKind /\ handle[t] = "none") => tmsg[t] \in OpenMsgs
    /\ tres[t] # "Unexpected"
C16_Witness ==
  \E t \in Threads : \E u \in Threads \ {t} :
    /\ tpc[t] = "idle" /\ tres[t] = "Transient" /\ cause[t] = "Interrupted"
    /\ tpc[u] = "idle" /\ tres[u] = "NotReady" /\ cause[u] = "WouldBlock"
    /\ handle[t] = "none" /\ handle[u] = "none"
    /\ rng_file = NoFile

\* C17, as claimed: a would-block failure is classified NotReady on every
\* path, a read of the shared device handle included.
C17_WouldBlockIsNotReady ==
  \A t \in Threads : cause[t] = "WouldBlock" => tres[t] = "NotReady"

\* C17, amended: a would-block failure is classified NotReady in
\* open_with_test (readiness probe and File::open) and in
\* getrandom_try_fill; random_device::read classifies every failure it
\* returns, a would-block one included, Unavailable.
C17_WouldBlockByPath ==
  \A t \in Threads :
    /\ (cause[t] = "WouldBlock" /\ tmsg[t] # "error reading random device") =>
          /\ tres[t] = "NotReady"
          /\ tmsg[t] \in {"OS RNG not yet seeded", "getrandom not ready"}
    /\ tmsg[t] = "error reading random device" =>
          /\ tres[t] = "Unavailable"
          /\ cause[t] \in {"WouldBlock", "Other"}
          /\ handle[t] = "RandomDevice"
    /\ tmsg[t] \in {"getrandom not ready", "unexpected getrandom error"} =>
          /\ handle[t] = "GetRandom"
          /\ (tres[t] = "NotReady") <=> (cause[t] = "WouldBlock")
C17_Witness ==
  \E t \in Threads :
    /\ tpc[t] = "idle" /\ handle[t] = "RandomDevice"
    /\ cause[t] = "WouldBlock" /\ tres[t] = "Unavailable"
    /\ tmsg[t] = "error reading random device"
    /\ stream_pos > 0

\* C18: random_device::read never returns on an interrupted read: after an
\* interruption the thread is still inside read_exact, holding the guard it
\* took when it entered, and goes on until dest is full or a failure that
\* is not Interrupted ends the call; no Error of read comes from an
\* Interrupted io::Error, and a Transient error comes from open_with_test only.
C18_ReadAbsorbsInterrupted ==
  \A t \in Threads :
    /\ tmsg[t] = "error reading random device" =>
         (cause[t] # "Interrupted" /\ tres[t] = "Unavailable")
    /\ tres[t] = "Transient" => tmsg[t] = "interrupted"
    /\ (intr[t] /\ handle[t] = "RandomDevice") =>
         (InRead(t) /\ mutex_owner = t /\ Len(got[t]) = rd[t])
    /\ tpc[t] \in {"idle", "read_lock"} => ~intr[t]
    /\ tpc[t] = "read_done" => (rd[t] = tlen[t] /\ Len(got[t]) = tlen[t])
C18_Witness ==
  \E t \in Threads :
    /\ tpc[t] = "read_done" /\ intr[t] /\ tlen[t] = MaxRead
    /\ Len(got[t]) = MaxRead /\ mutex_owner = t

\* The getrandom syscall is missing: the architecture has no syscall number,
\* or the kernel answers the zero-length probe with -1 and ENOSYS.
GetrandomMissing == nr_getrandom = 0 \/ kernel = "enosys"

\* C19: a missing getrandom syscall makes OsRng::new() fall back to the
\* device and never makes it fail: a handle has the device variant exactly
\* when the syscall is missing and the getrandom variant on every other
\* probe outcome, an error of another kind included; only then does a
\* thread enter open_with_test, and the only errors new() returns are those
\* of open_with_test.
C19_FallbackOnMissingSyscall ==
  /\ checker = "done" => (AVAILABLE <=> kernel # "enosys")
  /\ checker # "done" => ~AVAILABLE
  /\ \A t \in Threads :
       /\ handle[t] = "RandomDevice" => GetrandomMissing
       /\ handle[t] = "GetRandom" => ~GetrandomMissing
       /\ tpc[t] \in {"open_once", "once_init", "open_lock", "open_test", "open_file"}
            => GetrandomMissing
       /\ tpc[t] = "probe" => nr_getrandom # 0
       /\ (tres[t] \in ErrorKind /\ handle[t] = "none") =>
            (GetrandomMissing /\ tmsg[t] \in OpenMsgs)
C19_Witness ==
  \E t \in Threads :
    /\ kernel = "enosys" /\ nr_getrandom # 0 /\ probes = 1 /\ ~AVAILABLE
    /\ tpc[t] = "idle" /\ handle[t] = "RandomDevice" /\ tres[t] = "Ok"

\* C20: where getrandom is available every OsRng::new() returns a getrandom
\* handle and the shared device state is never touched; otherwise new()
\* returns Ok with the device variant when open_with_test returns with a
\* file stored and returns open_with_test's error, and no handle, when it
\* returns with none; a handle of the device variant exists only once a file
\* is stored.
C20_State ==
  /\ ~GetrandomMissing =>
       /\ rng_once = "new" /\ rng_file = Unset /\ mutex_owner = 0
       /\ opens = 0 /\ stores = 0 /\ stream_pos = 0
       /\ \A t \in Threads : tmsg[t] \notin OpenMsgs
  /\ \A t \in Threads :
       /\ handle[t] = "RandomDevice" => rng_file >= 1
       /\ tmsg[t] \in OpenMsgs => GetrandomMissing
C20_Step ==
  \A t \in Threads :
    (InNew(t) /\ tpc'[t] = "idle") =>
       IF ~GetrandomMissing
         THEN tres'[t] = "Ok" /\ handle'[t] = "GetRandom"
         ELSE /\ tpc[t] \in {"open_lock", "open_test", "open_file"}
              /\ tres'[t] \in {"Ok"} \cup ErrorKind
              /\ (tres'[t] = "Ok") <=> (rng_file' >= 1)
              /\ tres'[t] = "Ok" => handle'[t] = "RandomDevice"
              /\ tres'[t] # "Ok" => (handle'[t] = handle[t] /\ tmsg'[t] \in OpenMsgs)
C20_NewFailsOnlyWithoutBackend == [](C20_State) /\ [][C20_Step]_vars
C20_Witness ==
  \E t \in Threads : \E u \in Threads \ {t} :
    /\ GetrandomMissing
    /\ tpc[t] = "idle" /\ tres[t] = "Unavailable" /\ handle[t] = "none"
    /\ tpc[u] = "idle" /\ tres[u] = "Ok" /\ handle[u] = "RandomDevice"
    /\ rng_file = 1

\* A thread is at a step that takes no part in the device path: the getrandom
\* probe, the load of its result, a getrandom fill.
OffDevicePath(t) == tpc[t] \in {"probe", "avail_load", "getrandom"}

\* C21, as claimed: while a thread holds the mutex for a device read, no
\* other thread's OsRng::new() and no fill of a getrandom handle waits.
C21_ReadBlocksNoConstruction ==
  \A t \in Threads : \A u \in Threads \ {t} :
    (InRead(t) /\ (InNew(u) \/ tpc[u] = "getrandom")) => ~Blocked(u)

\* C21, amended: the mutex is taken by device reads and by open_with_test: a
\* thread that holds it for a device read makes another thread's OsRng::new()
\* wait at open_with_test's mutex.lock(), like another device read, until
\* the read returns; construction of a getrandom handle and fills through
\* one take no lock and never wait for the mutex.
C21_ReadBlocksDeviceCalls ==
  \A t \in Threads : \A u \in Threads \ {t} :
    /\ InRead(t) =>
         /\ Blocked(u) <=> tpc[u] \in {"open_lock", "read_lock"}
         /\ InNew(u) => tpc[u] \in {"avail", "avail_load", "open_once", "open_lock"}
    /\ OffDevicePath(u) => ~Blocked(u)
    /\ ~GetrandomMissing => (mutex_owner = 0 /\ tpc[u] \notin {"open_lock", "read_lock"})
C21_Witness ==
  \E t \in Threads : \E u \in Threads \ {t} :
    /\ tpc[t] = "reading" /\ mutex_owner = t
    /\ tpc[u] = "open_lock" /\ handle[u] = "none" /\ Blocked(u)

\* ------------------------------- further claims on fill_bytes (Spec)

\* Failed attempts of the call that fill_bytes has answered with `continue`.
Retried ==
  NFailed - (IF pc \in {"handle", "panicked"} /\ result \in ErrorKind THEN 1 ELSE 0)

\* C24: one fill_bytes call emits at most one retry warning, whatever the
\* number and mix of Transient and NotReady failures: the warning count is 1
\* from the first retried failure on and stays 1, it is 0 as long as no
\* failure was retried, and a call whose first attempt succeeds emits none.
C24_OneWarning ==
  op = "fill_bytes" =>
    /\ warnings <= 1
    /\ warnings = (IF Retried > 0 THEN 1 ELSE 0)
    /\ error_logged <=> warnings = 1
    /\ (pc = "returned" /\ attempts = 1) => warnings = 0
C24_Witness ==
  /\ op = "fill_bytes" /\ pc = "returned" /\ warnings = 1
  /\ nfail["Transient"] = 3 /\ nfail["NotReady"] = 5

\* C25: every try_fill_bytes attempt of a fill_bytes call starts again at
\* the first byte of dest and passes the slices to the backend in order from
\* there; the bytes of the current attempt are a prefix of dest, and when
\* fill_bytes returns every byte of dest was written by the last attempt,
\* none by an attempt that failed.
C25_RetryRestarts ==
  op = "fill_bytes" =>
    /\ (pc = "chunks" /\ calls = <<>>) => off = 0
    /\ calls # <<>> =>
         /\ calls[1].off = 0
         /\ \A c \in 1 .. Len(calls) - 1 :
              calls[c + 1].off = calls[c].off + calls[c].len
    /\ pc = "chunks" => \A i \in 1 .. len : (dest[i] = CUR <=> i <= off)
    /\ pc = "returned" =>
         /\ \A i \in 1 .. len : dest[i] = CUR
         /\ len > 0 => /\ calls[1].off = 0
                       /\ calls[Len(calls)].off + calls[Len(calls)].len = len
C25_Witness ==
  /\ op = "fill_bytes" /\ pc = "chunks" /\ attempts = 2 /\ result = "none"
  /\ len = MaxLen /\ max_chunk_size = 1 /\ nfail["Transient"] = 1
  /\ Len(calls) = 1 /\ calls[1].off = 0 /\ calls[1].res = "Ok"
  /\ dest[1] = CUR /\ dest[2] = STALE /\ dest[3] = ORIG

\* C29: in a try_fill_bytes call on more than one chunk that succeeds, the
\* number of chunks the trace message reports is the number of fill_chunk
\* calls the loop made.
C29_TraceCountsChunks ==
  (len > Max /\ result = "Ok" /\ TryReturned) => traced = Len(calls)

\* ----------------------------- claims on next_u32 / next_u64 (SpecScalar)

\* The weight of byte i + 1 of an integer.
Weight(i) == ByteBase ^ i

\* C22: next_u32 and next_u64 make one fill_bytes call on a buffer of 4,
\* respectively 8, bytes and return the integer whose i-th least significant
\* byte is the i-th byte of the buffer; they return only after fill_bytes
\* returned (after at most RETRY_LIMIT + 1 attempts), return nothing when it
\* panics, and every byte of a returned value was written by the backend in
\* the successful attempt.
C22_ScalarFromFill ==
  op \in ScalarOps =>
    /\ len = (IF op = "next_u32" THEN 4 ELSE 8)
    /\ attempts <= RETRY_LIMIT + 1
    /\ pc # "value" => (value = NoValue /\ buf = <<>>)
    /\ pc = "value" =>
         /\ result = "Ok"
         /\ \A i \in 1 .. len : dest[i] = CUR
         /\ Len(buf) = len
         /\ \A i \in 1 .. len : buf[i] \in ByteVals
         /\ \A i \in 1 .. len : (value \div Weight(i - 1)) % ByteBase = buf[i]
         /\ value >= 0 /\ value < Weight(len)
C22_Witness ==
  /\ op = "next_u64" /\ pc = "value" /\ attempts > 2
  /\ buf[1] = 1 /\ buf[2] = ByteBase - 1 /\ buf[len] = ByteBase - 1
  /\ value % ByteBase = 1
  /\ nfail["Transient"] > 0 /\ nfail["NotReady"] > 0

\* ---------------------------------- claims on the targets (SpecOs)

\* A thread is inside a fill_chunk call.
InFillChunk(t) ==
  tpc[t] \in {"getrandom", "read_lock", "reading", "read_done", "sysctl", "sysctl_ret"}

\* In this step a fill_chunk call of thread t returns Ok: try_fill_bytes
\* returns Ok after it, or goes on to the next slice.
ChunkReturnsOk(t) ==
  /\ tpc[t] \in {"getrandom", "read_done", "sysctl_ret"}
  /\ \/ tpc'[t] = "idle" /\ tres'[t] = "Ok"
     \/ toff'[t] > toff[t]

\* C23: a fill_chunk call returns Ok only when it has written exactly
\* dest.len() bytes of its slice, never after a partial fill: in
\* getrandom_try_fill the bytes of short reads add up, their count never
\* exceeds dest.len(), and the loop returns Ok exactly when the count has
\* reached dest.len(); FreeBSD's fill_chunk returns Unavailable when the
\* length sysctl reports differs from dest.len().
C23_State ==
  \A t \in Threads :
    /\ InFillChunk(t) => /\ Slice(t) >= 1
                         /\ rd[t] >= 0 /\ rd[t] <= Slice(t)
                         /\ toff[t] + Slice(t) <= tlen[t]
    /\ tpc[t] = "read_done" => rd[t] = Slice(t)
C23_Step ==
  \A t \in Threads :
    /\ ChunkReturnsOk(t) => rd[t] = Slice(t)
    /\ (tpc[t] = "getrandom" /\ rd[t] = Slice(t) /\ tpc'[t] # "getrandom") =>
         ChunkReturnsOk(t)
    /\ (tpc[t] = "getrandom" /\ rd[t] < Slice(t) /\ tpc'[t] # "getrandom") =>
         (tpc'[t] = "idle" /\ tres'[t] \in {"NotReady", "Unavailable"})
    /\ (tpc[t] = "sysctl_ret" /\ rd[t] # Slice(t) /\ tpc'[t] # "sysctl_ret") =>
         (tpc'[t] = "idle" /\ tres'[t] = "Unavailable"
            /\ tmsg'[t] = "kern.arandom sysctl failed")
C23_FullChunkOrError == [](C23_State) /\ [][C23_Step]_vars
C23_Witness ==
  \E t \in Threads :
    /\ target_os = "linux" /\ handle[t] = "GetRandom"
    /\ tpc[t] = "getrandom" /\ tlen[t] = MaxRead /\ rd[t] = MaxRead /\ intr[t]

\* ------------------------------ further claims on the process (SpecDev)

\* C26: whenever a handle of the device variant exists, READ_RNG_ONCE has
\* completed and READ_RNG_FILE holds the one file that was stored, open; a
\* thread enters random_device::read only through such a handle, so read's
\* unwraps of the shared mutex and of the stored file never meet an absent
\* value: no thread panics and the mutex is never poisoned, however
\* constructions, clones and reads interleave.
C26_DeviceHandleImpliesFile ==
  /\ ~poisoned
  /\ stores >= 1 => (rng_file >= 1 /\ rng_file \notin closed)
  /\ \A t \in Threads :
       /\ tpc[t] # "panicked"
       /\ handle[t] = "RandomDevice" =>
            /\ rng_once = "done"
            /\ rng_file >= 1 /\ rng_file \notin closed
            /\ opens >= 1 /\ stores >= 1
       /\ tpc[t] \in {"read_lock", "reading", "read_done"} =>
            (handle[t] = "RandomDevice" /\ rng_file >= 1)
C26_Witness ==
  \E t \in Threads : \E u \in Threads \ {t} :
    /\ tpc[t] = "reading" /\ handle[t] = "RandomDevice" /\ rd[t] > 0
    /\ tpc[u] = "read_lock" /\ handle[u] = "RandomDevice"
    /\ tres[u] = "none" /\ tmsg[u] = "none" /\ opens = 1

\* The messages of the Errors a fill_chunk of the Linux backend makes.
FillMsgs == {"getrandom not ready", "unexpected getrandom error",
             "error reading random device"}

\* C28: no fill of a Linux handle returns a Transient error:
\* getrandom_try_fill answers an interrupted syscall by calling again,
\* inside the same fill_chunk call, and random_device::read returns only
\* Unavailable; an error of a fill is NotReady or Unavailable and comes from
\* no interrupted call, so fill_bytes does not take its transient-retry
\* branch on it, and a Transient error comes from OsRng::new() only.
C28_NoTransientFill ==
  \A t \in Threads :
    /\ tmsg[t] \in FillMsgs =>
         /\ tres[t] \in {"NotReady", "Unavailable"}
         /\ cause[t] \in {"WouldBlock", "Other"}
         /\ should_wait(tres[t]) \/ ~should_retry(tres[t])
    /\ tmsg[t] = "error reading random device" => tres[t] = "Unavailable"
    /\ (tres[t] \in ErrorKind /\ tmsg[t] \notin FillMsgs) => tmsg[t] \in OpenMsgs
    /\ tres[t] = "Transient" => (tmsg[t] = "interrupted" /\ cause[t] = "Interrupted")
    /\ cause[t] = "Interrupted" => tmsg[t] = "interrupted"
    /\ (intr[t] /\ handle[t] = "GetRandom") =>
         (tpc[t] = "getrandom" /\ tres[t] = "none" /\ rd[t] <= tlen[t])
C28_Witness ==
  \E t \in Threads : \E u \in Threads \ {t} :
    /\ tpc[t] = "getrandom" /\ intr[t] /\ rd[t] > 0 /\ rd[t] < tlen[t]
    /\ tpc[u] = "idle" /\ handle[u] = "GetRandom" /\ tres[u] = "NotReady"

\* The positions are consecutive positions of the device stream.
Contiguous(s) == \A i \in 1 .. Len(s) - 1 : s[i + 1] = s[i] + 1

\* C27: the mutex is held per chunk, not per try_fill_bytes call: a thread
\* holds it exactly while it is inside open_with_test's guarded part or
\* inside one read, so between two chunks of a call it is released and
\* another thread's read can take bytes of the stream; each chunk is one
\* contiguous segment of at most max_chunk_size bytes, and on a device
\* backend without a chunk bound the whole request is one read and one
\* contiguous segment.
C27_LockPerChunk ==
  \A t \in Threads :
    /\ HoldsLock(t) <=> mutex_owner = t
    /\ tpc[t] = "read_lock" => mutex_owner # t
    /\ Contiguous(got[t])
    /\ InRead(t) => (Len(got[t]) = rd[t] /\ rd[t] <= Slice(t))
    /\ handle[t] = "RandomDevice" => Len(fgot[t]) = toff[t]
    /\ (InFillChunk(t) /\ ImpMaxChunk(target_os) # None) =>
         Slice(t) <= ImpMaxChunk(target_os)
    /\ (InFillChunk(t) /\ ImpMaxChunk(target_os) = None) =>
         (toff[t] = 0 /\ fgot[t] = <<>> /\ Slice(t) = tlen[t])
C27_Witness ==
  \E t \in Threads : \E u \in Threads \ {t} :
    /\ target_os = "emscripten" /\ handle[t] = "RandomDevice"
    /\ tpc[t] = "read_done" /\ toff[t] > 0 /\ ~Contiguous(fgot[t] \o got[t])
    /\ tpc[u] = "read_lock" /\ toff[u] > 0 /\ mutex_owner = t

====
